---- MODULE Spec2Model ----
(***************************************************************************)
(* EnterpriseGraphGenerator (src/generator.py) driven by the schemas of    *)
(* src/config.py: node creation, benign wiring, attack-motif injection     *)
(* with sensitive-asset and boundary enforcement, labeling and commit.     *)
(* Every random draw of the code is a nondeterministic choice (\E).        *)
(***************************************************************************)
EXTENDS Integers, Sequences, FiniteSets, TLC

VARIABLES
    config,             \* self.config: the EnterpriseConfig handed to __init__
    randint_range,      \* <<lo, hi>> of the random.randint drawing num_attacks
    pc,                 \* position inside generate() / _inject_attack()
    error,              \* [exc, names]: the exception that ended the call and the names it carries
    graph_nodes,        \* self.graph.nodes: id -> [node_type, attack_node]
    graph_edges,        \* self.graph edges: <<src, dst>> -> [edge_type, attack_edge]
    attack_instances,   \* self.graph.graph["attack_instances"]
    node_id_counter,    \* self.node_id_counter
    relation_idx,       \* benign wiring: index of the relation being wired
    trial,              \* benign wiring: trials done for that relation
    num_attacks,        \* generate(): num_attacks
    injected,           \* generate(): iterations of the injection loop done
    motif,              \* _inject_attack locals
    current,
    attack_nodes,
    attack_edges,
    boundary_crossed,
    todo,               \* the rest of the motif branch still to execute
    seeded,             \* the random streams the driver seeded before generate()
    streams_used,       \* the random streams a draw has advanced so far
    pyg                 \* the Data bundle to_pyg() returned (x left out)

vars == <<config, randint_range, pc, error, graph_nodes, graph_edges,
          attack_instances, node_id_counter, relation_idx, trial, num_attacks,
          injected, motif, current, attack_nodes, attack_edges,
          boundary_crossed, todo, seeded, streams_used, pyg>>

(***************************************************************************)
(* Bounds of the model.                                                    *)
(***************************************************************************)
\* trials of the benign loop per relation (range(500) in the source)
BenignTrials == 1
\* num_attacks is drawn from MinAttacks..MaxAttacks in the scaled runs
MinAttacks == 1
MaxAttacks == 2
\* calls of generate() on one generator object
MaxCalls == 2

\* random.randint(10, 20) of generate()
RandintLo == 10
RandintHi == 20

\* node ids the benign trials of the model draw their endpoints from
BenignPool == {0, 1}

\* A configured population scaled down.  Narrow: every populated type keeps
\* one node.  Wide: the most populous type of a shipped schema (Workstation
\* 280, Host 200, Container 200) keeps two nodes, every other populated type
\* one.  An empty type stays empty.
ScaleNodeCount(n, wide) ==
    IF n = 0 THEN 0 ELSE IF wide THEN (n \div 200) + 1 ELSE 1

(***************************************************************************)
(* src/config.py                                                           *)
(***************************************************************************)
NC(t, n) == [t |-> t, n |-> n]
BG(name, types) == [name |-> name, types |-> types]

enterprise_A_config ==
    [ name |-> "Enterprise_A",
      node_types |-> <<"Employee", "Workstation", "Server", "Process", "File", "DC">>,
      relation_types |-> <<"login_event", "process_start", "process_spawn",
                           "file_touch", "net_flow", "dc_auth">>,
      node_counts |-> <<NC("Employee", 80), NC("Workstation", 280), NC("Server", 20),
                        NC("Process", 100), NC("File", 80), NC("DC", 1)>>,
      attack_motif_definitions |-> <<"A1", "A2", "A3">>,
      sensitive_asset_types |-> <<"Server", "DC", "File">>,
      boundary_definition |->
          <<BG("user_to_host", {"Employee", "Workstation", "Server"}),
            BG("host_to_dc", {"Server", "DC"})>> ]

enterprise_B_config ==
    [ name |-> "Enterprise_B",
      node_types |-> <<"User", "Host", "Subnet", "InternalService", "DC">>,
      relation_types |-> <<"session_open", "socket_connect", "cross_subnet",
                           "api_call", "dc_session">>,
      node_counts |-> <<NC("User", 60), NC("Host", 200), NC("Subnet", 4),
                        NC("InternalService", 80), NC("DC", 1)>>,
      attack_motif_definitions |-> <<"B1", "B2", "B3">>,
      sensitive_asset_types |-> <<"Host", "InternalService", "DC">>,
      boundary_definition |->
          <<BG("subnet_boundary", {"Host", "Subnet"}),
            BG("dc_boundary", {"Host", "DC"})>> ]

enterprise_C_config ==
    [ name |-> "Enterprise_C",
      node_types |-> <<"Identity", "VM", "Container", "Microservice", "StorageBucket">>,
      relation_types |-> <<"auth_session", "container_spawn", "east_west_traffic",
                           "service_invocation", "storage_access">>,
      node_counts |-> <<NC("Identity", 70), NC("VM", 60), NC("Container", 200),
                        NC("Microservice", 120), NC("StorageBucket", 40)>>,
      attack_motif_definitions |-> <<"C1", "C2", "C3">>,
      sensitive_asset_types |-> <<"StorageBucket", "Microservice">>,
      boundary_definition |->
          <<BG("vm_container", {"VM", "Container"}),
            BG("service_storage", {"Microservice", "StorageBucket"})>> ]

\* An EnterpriseConfig with its populations scaled down.
Scaled(cfg, wide) ==
    [cfg EXCEPT !.node_counts =
        [i \in DOMAIN cfg.node_counts |->
            NC(cfg.node_counts[i].t, ScaleNodeCount(cfg.node_counts[i].n, wide))]]

ShippedNames == {"Enterprise_A", "Enterprise_B", "Enterprise_C"}

\* Enterprise B with Subnet as its only sensitive asset type: the motifs B2
\* and B3 never visit a Subnet, so the enforcement of lines 253-261 fires.
subnet_sensitive_config ==
    [enterprise_B_config EXCEPT !.name = "Enterprise_B_subnet",
                                !.sensitive_asset_types = <<"Subnet">>]

\* A schema whose only motif is B3 and whose single group makes its first
\* step a crossing: one node per type, so an injection draws nothing but
\* the motif.
single_motif_config ==
    [ name |-> "Enterprise_B3",
      node_types |-> <<"User", "Host", "DC">>,
      relation_types |-> <<"session_open", "dc_session">>,
      node_counts |-> <<NC("User", 1), NC("Host", 1), NC("DC", 1)>>,
      attack_motif_definitions |-> <<"B3">>,
      sensitive_asset_types |-> <<"DC">>,
      boundary_definition |-> <<BG("user_host", {"User", "Host"})>> ]

\* The schema of the spec's custom-motif scenario: attack_motif_definitions
\* is a list of names (config.py line 24), so the schema can name its motif
\* but has no field to carry the motif's steps.
abc_config ==
    [ name |-> "ABC",
      node_types |-> <<"A", "B", "C">>,
      relation_types |-> <<"R1", "R2">>,
      node_counts |-> <<NC("A", 5), NC("B", 5), NC("C", 2)>>,
      attack_motif_definitions |-> <<"M1">>,
      sensitive_asset_types |-> <<"C">>,
      boundary_definition |-> <<BG("zone", {"A", "B", "C"})>> ]

\* Enterprise B with no Subnet configured: B1 walks to a Subnet, and the
\* forced boundary step may draw the type.
no_subnet_config ==
    [Scaled(enterprise_B_config, FALSE) EXCEPT
        !.name = "Enterprise_B_no_subnet",
        !.node_counts = [i \in DOMAIN enterprise_B_config.node_counts |->
            IF enterprise_B_config.node_counts[i].t = "Subnet"
            THEN NC("Subnet", 0)
            ELSE NC(enterprise_B_config.node_counts[i].t, 1)]]

\* the B3 schema with no sensitive asset type, and with no boundary group
no_sensitive_config ==
    [single_motif_config EXCEPT !.name = "Enterprise_B3_no_sensitive",
                                !.sensitive_asset_types = <<>>]

no_boundary_config ==
    [single_motif_config EXCEPT !.name = "Enterprise_B3_no_boundary",
                                !.boundary_definition = <<>>]

\* the B3 schema without the relation of B3's second step, and without the
\* node type that step walks to
undeclared_relation_config ==
    [single_motif_config EXCEPT !.name = "Enterprise_B3_no_dc_session",
                                !.relation_types = <<"session_open">>]

undeclared_type_config ==
    [single_motif_config EXCEPT !.name = "Enterprise_B3_no_DC",
                                !.node_types = <<"User", "Host">>,
                                !.node_counts = <<NC("User", 1), NC("Host", 1)>>,
                                !.sensitive_asset_types = <<"Host">>]

(***************************************************************************)
(* Helpers                                                                 *)
(***************************************************************************)
Range(s) == {s[i] : i \in DOMAIN s}

Last(s) == s[Len(s)]

\* self.graph.nodes[n]["node_type"]
NodeType(n) == graph_nodes[n].node_type

\* _get_random_node_by_type: the candidates random.choice draws from
Candidates(node_type) ==
    {n \in DOMAIN graph_nodes : graph_nodes[n].node_type = node_type}

\* _cross_boundary returning True for any two members of one group
CrossBoundaryAnyPair(prev_type, next_type) ==
    \E i \in DOMAIN config.boundary_definition :
        /\ prev_type \in config.boundary_definition[i].types
        /\ next_type \in config.boundary_definition[i].types

\* _cross_boundary
CrossBoundary(prev_type, next_type) ==
    \E i \in DOMAIN config.boundary_definition :
        /\ prev_type \in config.boundary_definition[i].types
        /\ next_type \in config.boundary_definition[i].types
        /\ prev_type # next_type

\* nx.DiGraph.add_edge as _add_edge and the benign loop call it: one edge per
\* ordered pair, whose attributes the call overwrites.
AddEdge(E, src, dst, relation, attack) ==
    [p \in (DOMAIN E) \cup {<<src, dst>>} |->
        IF p = <<src, dst>>
        THEN [edge_type |-> relation, attack_edge |-> IF attack THEN 1 ELSE 0]
        ELSE E[p]]

(***************************************************************************)
(* The motif branches of _inject_attack (lines 102-247) as data: the entry *)
(* type, then the items of the branch in program order.  A "step" is one   *)
(* _get_random_node_by_type + add_step pair; its source is `current` (the  *)
(* entry node) or the node the previous step appended (ws, proc, server,   *)
(* ... in the source, each re-bound to the newest node before it is used). *)
(* A "coin" is an `if random.random() < p:` guarding the next n steps; a   *)
(* "repeat" is a `for _ in range(random.randint(lo, hi)):` around the next *)
(* step.                                                                   *)
(***************************************************************************)
S(src, t, r) == [k |-> "step", src |-> src, t |-> t, r |-> r, n |-> 0, lo |-> 0, hi |-> 0]
Coin(n) == [k |-> "coin", src |-> "", t |-> "", r |-> "", n |-> n, lo |-> 0, hi |-> 0]
Rep(lo, hi) == [k |-> "repeat", src |-> "", t |-> "", r |-> "", n |-> 1, lo |-> lo, hi |-> hi]

MotifBranch(m) ==
    CASE m = "A1" -> [entry |-> "Employee", items |->
            <<S("current", "Workstation", "login_event"),
              Coin(1), S("last", "Workstation", "net_flow"),
              S("last", "Server", "net_flow"),
              Coin(2), S("last", "Process", "process_start"),
                       S("last", "File", "file_touch")>>]
      [] m = "A2" -> [entry |-> "Employee", items |->
            <<S("current", "Workstation", "login_event"),
              S("last", "Process", "process_start"),
              Coin(1), S("last", "Process", "process_spawn"),
              S("current", "DC", "dc_auth"),
              S("last", "Server", "net_flow")>>]
      [] m = "A3" -> [entry |-> "Employee", items |->
            <<S("current", "Workstation", "login_event"),
              Coin(1), S("last", "Workstation", "net_flow"),
              S("current", "Server", "login_event")>>]
      [] m = "B1" -> [entry |-> "User", items |->
            <<S("current", "Host", "session_open"),
              S("last", "Host", "socket_connect"),
              S("last", "Subnet", "cross_subnet"),
              S("last", "Host", "socket_connect")>>]
      [] m = "B2" -> [entry |-> "User", items |->
            <<S("current", "Host", "session_open"),
              S("last", "InternalService", "api_call"),
              Coin(1), S("last", "InternalService", "api_call"),
              S("last", "InternalService", "api_call")>>]
      [] m = "B3" -> [entry |-> "User", items |->
            <<S("current", "Host", "session_open"),
              S("current", "DC", "dc_session")>>]
      [] m = "C1" -> [entry |-> "Identity", items |->
            <<S("current", "VM", "auth_session"),
              S("last", "Container", "container_spawn"),
              S("last", "Container", "east_west_traffic"),
              S("last", "Microservice", "service_invocation"),
              S("last", "StorageBucket", "storage_access")>>]
      [] m = "C2" -> [entry |-> "Identity", items |->
            <<S("current", "VM", "auth_session"),
              S("last", "Container", "container_spawn"),
              S("last", "Microservice", "service_invocation"),
              Rep(1, 3), S("last", "Microservice", "service_invocation")>>]
      [] m = "C3" -> [entry |-> "Container", items |->
            <<Rep(3, 4), S("last", "Container", "east_west_traffic"),
              S("last", "Microservice", "service_invocation")>>]
      \* no branch of the chain matches: nothing is appended
      [] OTHER -> [entry |-> "", items |-> <<>>]

(***************************************************************************)
(* State after EnterpriseGraphGenerator(config)                            *)
(***************************************************************************)
NoBundle ==
    [node_type |-> <<>>, y |-> <<>>, edge_index |-> <<>>, edge_type |-> <<>>,
     edge_label |-> <<>>]

NoError == [exc |-> "none", names |-> {}]

\* main.py (lines 31-33) seeds torch, random and numpy when it is loaded;
\* experiment_runner.py (line 20) seeds torch only.
SeededBy(driver) ==
    IF driver = "main" THEN {"torch", "random", "numpy"} ELSE {"torch"}

InitWith(cfgs, range) ==
    /\ config \in cfgs
    /\ randint_range = range
    /\ pc = "generate"
    /\ error = NoError
    /\ graph_nodes = <<>>
    /\ graph_edges = <<>>
    /\ attack_instances = <<>>
    /\ node_id_counter = 0
    /\ relation_idx = 0
    /\ trial = 0
    /\ num_attacks = 0
    /\ injected = 0
    /\ motif = ""
    /\ current = 0
    /\ attack_nodes = <<>>
    /\ attack_edges = <<>>
    /\ boundary_crossed = FALSE
    /\ todo = <<>>
    /\ streams_used = {}
    /\ pyg = NoBundle

\* The schemas of the scaled runs: narrow populations with MinAttacks ..
\* MaxAttacks injections, wide populations with a single injection.
NarrowConfigs ==
    {Scaled(enterprise_A_config, FALSE), Scaled(enterprise_B_config, FALSE),
     Scaled(enterprise_C_config, FALSE), Scaled(subnet_sensitive_config, FALSE)}

WideConfigs ==
    {Scaled(enterprise_A_config, TRUE), Scaled(enterprise_B_config, TRUE),
     Scaled(enterprise_C_config, TRUE)}

Init ==
    /\ \/ InitWith(NarrowConfigs, <<MinAttacks, MaxAttacks>>)
       \/ InitWith(WideConfigs, <<1, 1>>)
    /\ seeded = SeededBy("main")

InitCount ==
    /\ InitWith({single_motif_config}, <<RandintLo, RandintHi>>)
    /\ seeded = SeededBy("main")

\* the two scripts that build a generator, call generate() and export
Drivers == {"main", "experiment_runner"}

\* either script running one schema with a single injection
InitDrivers ==
    /\ InitWith(NarrowConfigs, <<1, 1>>)
    /\ \E driver \in Drivers : seeded = SeededBy(driver)

\* schemas the shipped ones do not cover, each with a single injection, next
\* to the B3 schema they are cut from
OtherConfigs ==
    {single_motif_config, abc_config, no_subnet_config, no_sensitive_config,
     no_boundary_config, undeclared_relation_config, undeclared_type_config}

InitSchemas ==
    /\ InitWith(OtherConfigs, <<1, 1>>)
    /\ seeded = SeededBy("main")

\* a generator object whose generate() the caller runs up to MaxCalls times
InitRerun ==
    /\ InitWith({single_motif_config}, <<MinAttacks, MaxAttacks>>)
    /\ seeded = SeededBy("main")

\* the streams advanced once a draw is made from `stream`: random for the
\* random.choice / random.random / random.randint of generate(), numpy for
\* the np.random.randn of to_pyg()
Drawn(stream) == streams_used \cup {stream}

\* an exception leaves generate(): nothing else changes.  `names` are the
\* schema names (types, relations, motifs) the exception's text carries:
\* none for the IndexError of random.choice or of an index on an empty
\* list, the missing key for a KeyError.
Raise(exc, names) ==
    /\ pc' = "raised"
    /\ error' = [exc |-> exc, names |-> names]

(***************************************************************************)
(* _generate_nodes                                                         *)
(***************************************************************************)
RECURSIVE TotalCount(_, _)
TotalCount(counts, i) ==
    IF i > Len(counts) THEN 0 ELSE counts[i].n + TotalCount(counts, i + 1)

\* the type of the k-th node (k = 0, 1, ...) the two loops create
RECURSIVE TypeAt(_, _, _)
TypeAt(counts, i, k) ==
    IF k < counts[i].n THEN counts[i].t ELSE TypeAt(counts, i + 1, k - counts[i].n)

\* _generate_nodes incrementing the counter before it names the node
GenerateNodesFromOne ==
    /\ pc = "generate"
    /\ LET created == TotalCount(config.node_counts, 1)
           first == node_id_counter + 1
       IN /\ graph_nodes' =
                [id \in (DOMAIN graph_nodes) \cup (first .. first + created - 1) |->
                    IF id >= first
                    THEN [node_type |-> TypeAt(config.node_counts, 1, id - first),
                          attack_node |-> 0]
                    ELSE graph_nodes[id]]
          /\ node_id_counter' = node_id_counter + created
    /\ pc' = IF config.relation_types = <<>> \/ BenignTrials = 0
             THEN "randint" ELSE "benign"
    /\ relation_idx' = 1
    /\ trial' = 0
    /\ UNCHANGED <<config, randint_range, seeded, pyg, streams_used, error,
                   graph_edges, attack_instances,
                   num_attacks, injected, motif, current, attack_nodes,
                   attack_edges, boundary_crossed, todo>>

GenerateNodes ==
    /\ pc = "generate"
    /\ LET created == TotalCount(config.node_counts, 1)
           first == node_id_counter
       IN /\ graph_nodes' =
                [id \in (DOMAIN graph_nodes) \cup (first .. first + created - 1) |->
                    IF id >= first
                    THEN [node_type |-> TypeAt(config.node_counts, 1, id - first),
                          attack_node |-> 0]
                    ELSE graph_nodes[id]]
          /\ node_id_counter' = node_id_counter + created
    /\ pc' = IF config.relation_types = <<>> \/ BenignTrials = 0
             THEN "randint" ELSE "benign"
    /\ relation_idx' = 1
    /\ trial' = 0
    /\ UNCHANGED <<config, randint_range, seeded, pyg, streams_used, error,
                   graph_edges, attack_instances,
                   num_attacks, injected, motif, current, attack_nodes,
                   attack_edges, boundary_crossed, todo>>

(***************************************************************************)
(* _generate_benign_edges: one trial of the inner loop, loop control       *)
(* included                                                                *)
(***************************************************************************)
\* the benign loop writing its edge with attack_edge=1
BenignWriteFlagged(E, src, dst, relation) ==
    IF src # dst THEN AddEdge(E, src, dst, relation, TRUE) ELSE E

BenignWrite(E, src, dst, relation) ==
    IF src # dst THEN AddEdge(E, src, dst, relation, FALSE) ELSE E

BenignTrial ==
    /\ pc = "benign"
    /\ IF DOMAIN graph_nodes = {}
       THEN /\ Raise("IndexError", {})
            /\ UNCHANGED <<graph_edges, relation_idx, trial>>
       ELSE /\ \E src \in (DOMAIN graph_nodes) \cap BenignPool :
               \E dst \in (DOMAIN graph_nodes) \cap BenignPool :
                  graph_edges' = BenignWrite(graph_edges, src, dst,
                                             config.relation_types[relation_idx])
            /\ IF trial + 1 < BenignTrials
               THEN /\ trial' = trial + 1
                    /\ UNCHANGED <<relation_idx, pc>>
               ELSE /\ trial' = 0
                    /\ relation_idx' = relation_idx + 1
                    /\ pc' = IF relation_idx + 1 > Len(config.relation_types)
                             THEN "randint" ELSE "benign"
            /\ UNCHANGED error
    /\ streams_used' = IF DOMAIN graph_nodes = {} THEN streams_used ELSE Drawn("random")
    /\ UNCHANGED <<config, randint_range, seeded, pyg, graph_nodes,
                   attack_instances,
                   node_id_counter, num_attacks, injected, motif, current,
                   attack_nodes, attack_edges, boundary_crossed, todo>>

(***************************************************************************)
(* generate(): lines 33-34                                                 *)
(***************************************************************************)
DrawNumAttacks ==
    /\ pc = "randint"
    /\ num_attacks' \in randint_range[1] .. randint_range[2]
    /\ attack_instances' = <<>>
    /\ injected' = 0
    /\ pc' = "inject"
    /\ streams_used' = Drawn("random")
    /\ UNCHANGED <<config, randint_range, seeded, pyg, error, graph_nodes,
                   graph_edges,
                   node_id_counter, relation_idx, trial, motif, current,
                   attack_nodes, attack_edges, boundary_crossed, todo>>

(***************************************************************************)
(* _inject_attack                                                          *)
(***************************************************************************)
\* add_step writing the edge with the default attack=False
AddStepUnflagged(src, dst, relation) ==
    /\ graph_edges' = AddEdge(graph_edges, src, dst, relation, FALSE)
    /\ attack_edges' = Append(attack_edges, <<src, dst>>)
    /\ attack_nodes' = Append(attack_nodes, dst)
    /\ boundary_crossed' =
          IF CrossBoundary(NodeType(src), NodeType(dst)) THEN TRUE ELSE boundary_crossed

\* add_step assigning the detector's answer to the flag at every step
AddStepOverwriteFlag(src, dst, relation) ==
    /\ graph_edges' = AddEdge(graph_edges, src, dst, relation, TRUE)
    /\ attack_edges' = Append(attack_edges, <<src, dst>>)
    /\ attack_nodes' = Append(attack_nodes, dst)
    /\ boundary_crossed' = CrossBoundary(NodeType(src), NodeType(dst))

\* add_step appending the source of the edge to attack_nodes
AddStepAppendSource(src, dst, relation) ==
    /\ graph_edges' = AddEdge(graph_edges, src, dst, relation, TRUE)
    /\ attack_edges' = Append(attack_edges, <<src, dst>>)
    /\ attack_nodes' = Append(attack_nodes, src)
    /\ boundary_crossed' =
          IF CrossBoundary(NodeType(src), NodeType(dst)) THEN TRUE ELSE boundary_crossed

\* add_step (lines 86-96): the edge write, the two appends, the boundary flag
AddStep(src, dst, relation) ==
    /\ graph_edges' = AddEdge(graph_edges, src, dst, relation, TRUE)
    /\ attack_edges' = Append(attack_edges, <<src, dst>>)
    /\ attack_nodes' = Append(attack_nodes, dst)
    /\ boundary_crossed' =
          IF CrossBoundary(NodeType(src), NodeType(dst)) THEN TRUE ELSE boundary_crossed

\* where the walk goes once `rest` is what is left of the motif branch
AfterItems(rest) == IF rest = <<>> THEN "sensitive" ELSE "walk"

\* lines 80-84 and the entry selection of the motif's branch
\* (102-104, 159-161, 202-204, 238-239)
BeginAttack ==
    /\ pc = "inject"
    /\ injected < num_attacks
    /\ IF config.attack_motif_definitions = <<>>
       THEN /\ Raise("IndexError", {})
            /\ UNCHANGED <<motif, current, attack_nodes, attack_edges,
                           boundary_crossed, todo>>
       ELSE \E m \in Range(config.attack_motif_definitions) :
            LET branch == MotifBranch(m) IN
            /\ motif' = m
            /\ attack_edges' = <<>>
            /\ boundary_crossed' = FALSE
            /\ IF branch.entry = ""
               THEN /\ attack_nodes' = <<>>
                    /\ todo' = <<>>
                    /\ pc' = "sensitive"
                    /\ UNCHANGED <<current, error>>
               ELSE IF Candidates(branch.entry) = {}
               THEN /\ Raise("IndexError", {})
                    /\ attack_nodes' = <<>>
                    /\ UNCHANGED <<current, todo>>
               ELSE \E entry \in Candidates(branch.entry) :
                    /\ current' = entry
                    /\ attack_nodes' = <<entry>>
                    /\ todo' = branch.items
                    /\ pc' = AfterItems(branch.items)
                    /\ UNCHANGED error
    /\ streams_used' = IF config.attack_motif_definitions = <<>> THEN streams_used
                       ELSE Drawn("random")
    /\ UNCHANGED <<config, randint_range, seeded, pyg, graph_nodes, graph_edges,
                   attack_instances, node_id_counter, relation_idx, trial,
                   num_attacks, injected>>

\* the next item of the motif's branch: a step, a coin flip or a repeat count
WalkItem ==
    /\ pc = "walk"
    /\ LET item == Head(todo) IN
       CASE item.k = "step" ->
              IF Candidates(item.t) = {}
              THEN /\ Raise("IndexError", {})
                   /\ UNCHANGED <<graph_edges, attack_nodes, attack_edges,
                                  boundary_crossed, todo>>
              ELSE \E dst \in Candidates(item.t) :
                   /\ AddStep(IF item.src = "current" THEN current
                              ELSE Last(attack_nodes), dst, item.r)
                   /\ todo' = Tail(todo)
                   /\ pc' = AfterItems(Tail(todo))
                   /\ UNCHANGED error
         [] item.k = "coin" ->
              \E taken \in BOOLEAN :
                   /\ todo' = IF taken THEN Tail(todo)
                              ELSE SubSeq(todo, item.n + 2, Len(todo))
                   /\ pc' = AfterItems(todo')
                   /\ UNCHANGED <<error, graph_edges, attack_nodes,
                                  attack_edges,
                                  boundary_crossed>>
         [] item.k = "repeat" ->
              \E count \in item.lo .. item.hi :
                   /\ todo' = [i \in 1 .. count |-> todo[2]]
                              \o SubSeq(todo, 3, Len(todo))
                   /\ pc' = AfterItems(todo')
                   /\ UNCHANGED <<error, graph_edges, attack_nodes,
                                  attack_edges,
                                  boundary_crossed>>
    /\ streams_used' = IF Head(todo).k = "step" /\ Candidates(Head(todo).t) = {}
                       THEN streams_used ELSE Drawn("random")
    /\ UNCHANGED <<config, randint_range, seeded, pyg, graph_nodes,
                   attack_instances,
                   node_id_counter, relation_idx, trial, num_attacks, injected,
                   motif, current>>

\* the test of lines 254-257 reading node_types instead of sensitive_types
TouchesSensitiveAnyType(nodes) ==
    \E i \in DOMAIN nodes : NodeType(nodes[i]) \in Range(config.node_types)

\* the test of lines 254-257 looking at the entry node only
TouchesSensitiveEntryOnly(nodes) ==
    /\ nodes # <<>>
    /\ NodeType(nodes[1]) \in Range(config.sensitive_asset_types)

\* lines 253-257: does the walk hold a node of a sensitive type
TouchesSensitive(nodes) ==
    \E i \in DOMAIN nodes : NodeType(nodes[i]) \in Range(config.sensitive_asset_types)

\* Sensitive Asset Enforcement (lines 253-261)
SensitiveEnforcement ==
    /\ pc = "sensitive"
    /\ IF TouchesSensitive(attack_nodes)
       THEN /\ pc' = "boundary"
            /\ UNCHANGED <<error, graph_edges, attack_nodes, attack_edges,
                           boundary_crossed>>
       ELSE IF config.sensitive_asset_types = <<>>
       THEN /\ Raise("IndexError", {})
            /\ UNCHANGED <<graph_edges, attack_nodes, attack_edges,
                           boundary_crossed>>
       ELSE \E target_type \in Range(config.sensitive_asset_types) :
            IF Candidates(target_type) = {} \/ attack_nodes = <<>>
               \/ config.relation_types = <<>>
            THEN /\ Raise("IndexError", {})
                 /\ UNCHANGED <<graph_edges, attack_nodes, attack_edges,
                                boundary_crossed>>
            ELSE \E sensitive_node \in Candidates(target_type) :
                 /\ AddStep(Last(attack_nodes), sensitive_node,
                            config.relation_types[1])
                 /\ pc' = "boundary"
                 /\ UNCHANGED error
    /\ streams_used' = IF TouchesSensitive(attack_nodes) \/ config.sensitive_asset_types = <<>>
                       THEN streams_used ELSE Drawn("random")
    /\ UNCHANGED <<config, randint_range, seeded, pyg, graph_nodes,
                   attack_instances,
                   node_id_counter, relation_idx, trial, num_attacks, injected,
                   motif, current, todo>>

\* the forced boundary edge leaving from `current` instead of attack_nodes[-1]
BoundaryEnforcementFromEntry ==
    /\ pc = "boundary"
    /\ IF boundary_crossed
       THEN /\ pc' = "commit"
            /\ UNCHANGED <<error, graph_edges, attack_nodes, attack_edges,
                           boundary_crossed>>
       ELSE \E t \in Range(config.node_types) :
            \E node \in Candidates(t) :
                 /\ AddStep(current, node, config.relation_types[1])
                 /\ pc' = "commit"
                 /\ UNCHANGED error
    /\ streams_used' = IF boundary_crossed THEN streams_used ELSE Drawn("random")
    /\ UNCHANGED <<config, randint_range, seeded, pyg, graph_nodes,
                   attack_instances,
                   node_id_counter, relation_idx, trial, num_attacks, injected,
                   motif, current, todo>>

\* Force boundary if none crossed (lines 263-269)
BoundaryEnforcement ==
    /\ pc = "boundary"
    /\ IF boundary_crossed
       THEN /\ pc' = "commit"
            /\ UNCHANGED <<error, graph_edges, attack_nodes, attack_edges,
                           boundary_crossed>>
       ELSE IF config.node_types = <<>>
       THEN /\ Raise("IndexError", {})
            /\ UNCHANGED <<graph_edges, attack_nodes, attack_edges,
                           boundary_crossed>>
       ELSE \E t \in Range(config.node_types) :
            IF Candidates(t) = {} \/ config.relation_types = <<>>
            THEN /\ Raise("IndexError", {})
                 /\ UNCHANGED <<graph_edges, attack_nodes, attack_edges,
                                boundary_crossed>>
            ELSE \E node \in Candidates(t) :
                 /\ AddStep(Last(attack_nodes), node, config.relation_types[1])
                 /\ pc' = "commit"
                 /\ UNCHANGED error
    /\ streams_used' = IF boundary_crossed \/ config.node_types = <<>>
                       THEN streams_used ELSE Drawn("random")
    /\ UNCHANGED <<config, randint_range, seeded, pyg, graph_nodes,
                   attack_instances,
                   node_id_counter, relation_idx, trial, num_attacks, injected,
                   motif, current, todo>>

\* _label_attack labeling the appended nodes only, not the entry node
LabelNodesSkipEntry(N, nodes) ==
    [id \in DOMAIN N |->
        IF nodes # <<>> /\ id \in Range(Tail(nodes))
        THEN [N[id] EXCEPT !.attack_node = 1] ELSE N[id]]

\* _label_attack: the nodes of the walk
LabelNodes(N, nodes) ==
    [id \in DOMAIN N |->
        IF id \in Range(nodes) THEN [N[id] EXCEPT !.attack_node = 1] ELSE N[id]]

\* _label_attack treating the pairs as undirected
LabelEdgesUndirected(E, edges) ==
    [p \in DOMAIN E |->
        IF p \in Range(edges) \/ <<p[2], p[1]>> \in Range(edges)
        THEN [E[p] EXCEPT !.attack_edge = 1] ELSE E[p]]

\* _label_attack: the pairs of the walk the graph holds an edge for
LabelEdges(E, edges) ==
    [p \in DOMAIN E |->
        IF p \in Range(edges) THEN [E[p] EXCEPT !.attack_edge = 1] ELSE E[p]]

\* the record with path_length counting the nodes
InstanceRecordNodeCount ==
    [nodes |-> attack_nodes,
     edges |-> attack_edges,
     motif |-> motif,
     path_length |-> Len(attack_nodes),
     boundary_crossed |-> boundary_crossed]

\* the record of lines 273-281
InstanceRecord ==
    [nodes |-> attack_nodes,
     edges |-> attack_edges,
     motif |-> motif,
     path_length |-> Len(attack_edges),
     boundary_crossed |-> boundary_crossed]

\* lines 271-281: label, then append the record; the loop of generate() moves on
LabelAndCommit ==
    /\ pc = "commit"
    /\ graph_nodes' = LabelNodes(graph_nodes, attack_nodes)
    /\ graph_edges' = LabelEdges(graph_edges, attack_edges)
    /\ attack_instances' = Append(attack_instances, InstanceRecord)
    /\ injected' = injected + 1
    /\ pc' = "inject"
    /\ UNCHANGED <<config, randint_range, seeded, pyg, streams_used, error,
                   node_id_counter, relation_idx,
                   trial, num_attacks, motif, current, attack_nodes, attack_edges,
                   boundary_crossed, todo>>

\* generate() looping over range(num_attacks - 1)
ReturnEarly ==
    /\ pc = "inject"
    /\ injected = num_attacks - 1
    /\ pc' = "done"
    /\ UNCHANGED <<config, randint_range, seeded, pyg, streams_used, error,
                   graph_nodes, graph_edges,
                   attack_instances, node_id_counter, relation_idx, trial,
                   num_attacks, injected, motif, current, attack_nodes,
                   attack_edges, boundary_crossed, todo>>

\* generate(): the loop is over, return self.graph
Return ==
    /\ pc = "inject"
    /\ injected = num_attacks
    /\ pc' = "done"
    /\ UNCHANGED <<config, randint_range, seeded, pyg, streams_used, error,
                   graph_nodes, graph_edges,
                   attack_instances, node_id_counter, relation_idx, trial,
                   num_attacks, injected, motif, current, attack_nodes,
                   attack_edges, boundary_crossed, todo>>

(***************************************************************************)
(* to_pyg                                                                  *)
(***************************************************************************)
\* the code enumerate() gives a name of the list (the encodings of lines 18-23)
Encoding(names, x) == (CHOOSE i \in DOMAIN names : names[i] = x) - 1

\* self.graph.nodes iterated from the newest node to the oldest
RECURSIVE NodeOrderNewestFirst(_)
NodeOrderNewestFirst(ids) ==
    IF ids = {} THEN <<>>
    ELSE LET first == CHOOSE n \in ids : \A o \in ids : n >= o
         IN <<first>> \o NodeOrderNewestFirst(ids \ {first})

\* self.graph.nodes in iteration order: the order of creation, that is by id
RECURSIVE NodeOrder(_)
NodeOrder(ids) ==
    IF ids = {} THEN <<>>
    ELSE LET first == CHOOSE n \in ids : \A o \in ids : n <= o
         IN <<first>> \o NodeOrder(ids \ {first})

\* self.graph.edges in iteration order: by source node in node order; the
\* successors of one node are listed by id here (networkx lists them in the
\* order of their first write, which the store of the model does not keep)
RECURSIVE EdgeOrder(_)
EdgeOrder(pairs) ==
    IF pairs = {} THEN <<>>
    ELSE LET first == CHOOSE p \in pairs : \A q \in pairs :
                          p[1] < q[1] \/ (p[1] = q[1] /\ p[2] <= q[2])
         IN <<first>> \o EdgeOrder(pairs \ {first})

\* the first index of `found` whose name the encoding does not hold, 0 if none
FirstUnknown(found, names) ==
    LET bad == {k \in DOMAIN found : found[k] \notin Range(names)}
    IN IF bad = {} THEN 0 ELSE CHOOSE k \in bad : \A o \in bad : k <= o

EdgeType(p) == graph_edges[p].edge_type

\* to_pyg (lines 327-360), called on the graph generate() returned.  Every
\* node draws its feature row from np.random before its type is encoded.
ToPyg ==
    /\ pc = "done"
    /\ LET nodes == NodeOrder(DOMAIN graph_nodes)
           edges == EdgeOrder(DOMAIN graph_edges)
           bad_node == FirstUnknown([k \in DOMAIN nodes |-> NodeType(nodes[k])],
                                    config.node_types)
           bad_edge == FirstUnknown([k \in DOMAIN edges |-> EdgeType(edges[k])],
                                    config.relation_types)
       IN /\ streams_used' = IF nodes = <<>> THEN streams_used ELSE Drawn("numpy")
          /\ IF bad_node # 0
             THEN /\ pc' = "export_raised"
                  /\ error' = [exc |-> "KeyError", names |-> {NodeType(nodes[bad_node])}]
                  /\ UNCHANGED pyg
             ELSE IF bad_edge # 0
             THEN /\ pc' = "export_raised"
                  /\ error' = [exc |-> "KeyError", names |-> {EdgeType(edges[bad_edge])}]
                  /\ UNCHANGED pyg
             ELSE /\ pc' = "exported"
                  /\ pyg' =
                        [node_type |-> [k \in DOMAIN nodes |->
                                          Encoding(config.node_types, NodeType(nodes[k]))],
                         y |-> [k \in DOMAIN nodes |-> graph_nodes[nodes[k]].attack_node],
                         edge_index |-> edges,
                         edge_type |-> [k \in DOMAIN edges |->
                                          Encoding(config.relation_types, EdgeType(edges[k]))],
                         edge_label |-> [k \in DOMAIN edges |->
                                          graph_edges[edges[k]].attack_edge]]
                  /\ UNCHANGED error
    /\ UNCHANGED <<config, randint_range, seeded, graph_nodes, graph_edges,
                   attack_instances, node_id_counter, relation_idx, trial,
                   num_attacks, injected, motif, current, attack_nodes,
                   attack_edges, boundary_crossed, todo>>

Next ==
    \/ GenerateNodes
    \/ BenignTrial
    \/ DrawNumAttacks
    \/ BeginAttack
    \/ WalkItem
    \/ SensitiveEnforcement
    \/ BoundaryEnforcement
    \/ LabelAndCommit
    \/ Return
    \/ ToPyg

\* one generate() on a freshly constructed generator, scaled
Spec == Init /\ [][Next]_vars

\* the same with random.randint(10, 20) as written, for a schema whose
\* injections draw nothing
SpecCount == InitCount /\ [][Next]_vars

\* the caller calls generate() on the same object again: self.graph,
\* node_id_counter and the labels are what the last call left (lines 13-16
\* run in __init__ only)
GenerateAgain ==
    /\ pc \in {"done", "exported"}
    /\ node_id_counter < MaxCalls * TotalCount(config.node_counts, 1)
    /\ pc' = "generate"
    /\ UNCHANGED <<config, randint_range, seeded, pyg, streams_used, error,
                   graph_nodes, graph_edges, attack_instances, node_id_counter,
                   relation_idx, trial, num_attacks, injected, motif, current,
                   attack_nodes, attack_edges, boundary_crossed, todo>>

NextRerun ==
    \/ Next
    \/ GenerateAgain

\* generate() called repeatedly on one generator object
SpecRerun == InitRerun /\ [][NextRerun]_vars

\* one generate() and its export for a schema outside the shipped ones
SpecSchemas == InitSchemas /\ [][Next]_vars

\* generate() and to_pyg() as main.py or experiment_runner.py run them
SpecDrivers == InitDrivers /\ [][Next]_vars

(***************************************************************************)
(* Properties                                                              *)
(***************************************************************************)
Instances == {attack_instances[i] : i \in DOMAIN attack_instances}

SensitiveTypes == Range(config.sensitive_asset_types)

\* C1: every committed AttackInstance holds, in its node list, at least one
\* node whose type is one of the schema's sensitive_asset_types.
C1_SensitiveTouched ==
    \A inst \in Instances :
        \E j \in DOMAIN inst.nodes : NodeType(inst.nodes[j]) \in SensitiveTypes

\* generate() returned an instance of B3 that the enforcement of lines
\* 253-261 extended: its walk (User, Host, DC) holds no Subnet.
C1_Witness ==
    /\ pc = "done"
    /\ config.name = "Enterprise_B_subnet"
    /\ \E inst \in Instances : inst.motif = "B3" /\ inst.path_length >= 3

\* C2: for the shipped schemas every committed AttackInstance has
\* boundary_crossed true.
C2_AlwaysCrossed ==
    config.name \in ShippedNames =>
        \A inst \in Instances : inst.boundary_crossed

\* C3: at the boundary enforcement, when boundary_crossed is false exactly
\* one edge is appended, it leaves the last-visited node, it is written with
\* relation_types[0] as an attack edge, and the walk goes on to the commit;
\* when boundary_crossed is true nothing is appended; the commit appends the
\* walk as the enforcement left it, so nothing is forced after that edge.
C3_BoundaryEnforced ==
    [][ /\ pc = "boundary" =>
            /\ pc' = "commit"
            /\ IF boundary_crossed
               THEN /\ attack_edges' = attack_edges
                    /\ attack_nodes' = attack_nodes
                    /\ graph_edges' = graph_edges
                    /\ boundary_crossed'
               ELSE /\ Len(attack_edges') = Len(attack_edges) + 1
                    /\ SubSeq(attack_edges', 1, Len(attack_edges)) = attack_edges
                    /\ Last(attack_edges')[1] = Last(attack_nodes)
                    /\ attack_nodes' = Append(attack_nodes, Last(attack_edges')[2])
                    /\ graph_edges'[Last(attack_edges')] =
                           [edge_type |-> config.relation_types[1], attack_edge |-> 1]
        /\ pc = "commit" =>
            /\ Len(attack_instances') = Len(attack_instances) + 1
            /\ Last(attack_instances').edges = attack_edges
            /\ Last(attack_instances').nodes = attack_nodes
            /\ Last(attack_instances').boundary_crossed = boundary_crossed
      ]_vars

\* generate() returned an instance whose forced boundary edge did not cross.
C3_Witness ==
    /\ pc = "done"
    /\ \E inst \in Instances :
          /\ ~inst.boundary_crossed
          /\ inst.motif = "B2"
          /\ inst.path_length >= 4

\* C4: an edge of the store, identified by (src, dst, relation), is still in
\* the store after any later write: adding another relation on the same
\* ordered pair leaves both edges present.
C4_EdgesKept ==
    [][ \A p \in DOMAIN graph_edges :
            /\ p \in DOMAIN graph_edges'
            /\ graph_edges'[p].edge_type = graph_edges[p].edge_type ]_vars

\* C5: no step of generate() takes attack_node of a node or attack_edge of an
\* edge from 1 back to 0.
C5_Monotone ==
    [][ /\ \A n \in DOMAIN graph_nodes :
              graph_nodes[n].attack_node = 1 =>
                  n \in DOMAIN graph_nodes' /\ graph_nodes'[n].attack_node = 1
        /\ \A p \in DOMAIN graph_edges :
              graph_edges[p].attack_edge = 1 =>
                  p \in DOMAIN graph_edges' /\ graph_edges'[p].attack_edge = 1
      ]_vars

\* a second walk is rewriting an edge the first instance had labeled
C5_Witness ==
    /\ pc \in {"walk", "sensitive", "boundary", "commit"}
    /\ Len(attack_instances) = 1
    /\ \E p \in Range(attack_edges) :
          /\ p \in Range(attack_instances[1].edges)
          /\ graph_edges[p].attack_edge = 1

\* C6: once the nodes are created the node ids are exactly 0 .. N-1, N the
\* sum of node_counts, and every type has its configured number of nodes.
C6_DenseIds ==
    pc # "generate" =>
        /\ DOMAIN graph_nodes = 0 .. (TotalCount(config.node_counts, 1) - 1)
        /\ \A i \in DOMAIN config.node_counts :
              Cardinality(Candidates(config.node_counts[i].t))
                  = config.node_counts[i].n

\* generate() returned a graph with a type of two nodes
C6_Witness ==
    /\ pc = "done"
    /\ \E i \in DOMAIN config.node_counts : config.node_counts[i].n = 2

\* C7: when generate() has returned, a node has attack_node 1 exactly when
\* its id is in the node list of a committed AttackInstance.
C7_NodeLabels ==
    pc = "done" =>
        \A n \in DOMAIN graph_nodes :
            graph_nodes[n].attack_node = 1
                <=> \E inst \in Instances : n \in Range(inst.nodes)

\* generate() returned a graph with labeled and unlabeled nodes
C7_Witness ==
    /\ pc = "done"
    /\ \E n \in DOMAIN graph_nodes : graph_nodes[n].attack_node = 1
    /\ \E n \in DOMAIN graph_nodes : graph_nodes[n].attack_node = 0

\* C8: when generate() has returned, an edge has attack_edge 1 exactly when
\* its pair (src, dst) is in the edge list of a committed AttackInstance.
C8_EdgeLabels ==
    pc = "done" =>
        \A p \in DOMAIN graph_edges :
            graph_edges[p].attack_edge = 1
                <=> \E inst \in Instances : p \in Range(inst.edges)

\* generate() returned a graph holding an unlabeled benign edge whose reverse
\* pair an attack step used
C8_Witness ==
    /\ pc = "done"
    /\ \E p \in DOMAIN graph_edges :
          /\ graph_edges[p].attack_edge = 0
          /\ <<p[2], p[1]>> \in DOMAIN graph_edges
          /\ graph_edges[<<p[2], p[1]>>].attack_edge = 1

\* C9: path_length of a committed AttackInstance is the length of its edge
\* list, and the destination of each of its edges is in its node list.
C9_PathLength ==
    \A inst \in Instances :
        /\ inst.path_length = Len(inst.edges)
        /\ \A k \in DOMAIN inst.edges : inst.edges[k][2] \in Range(inst.nodes)

\* an instance with a forced edge is committed
C9_Witness ==
    \E inst \in Instances : inst.motif = "B2" /\ inst.path_length = 5

\* C10: num_attacks is drawn from 10 .. 20 before the first injection, is not
\* changed afterwards, and the instance list holds exactly num_attacks
\* records when generate() returns.
C10_InstanceCount ==
    /\ [](pc \notin {"generate", "benign", "randint"} =>
            /\ num_attacks \in 10 .. 20
            /\ Len(attack_instances) = injected
            /\ (pc = "done" => Len(attack_instances) = num_attacks))
    /\ [][pc \notin {"generate", "benign", "randint"} =>
            num_attacks' = num_attacks]_vars

\* generate() returned twenty instances
C10_Witness ==
    /\ pc = "done"
    /\ Len(attack_instances) = 20


\* the sets of types boundary_definition groups together
BoundaryGroups == {config.boundary_definition[i].types :
                       i \in DOMAIN config.boundary_definition}

\* C13: for every pair of declared types _cross_boundary is true exactly
\* when the two types differ and one boundary group holds both; no step of
\* the program changes what it answers for a pair, whatever the walk so far.
C13_CrossesPure ==
    [][ \A p \in Range(config.node_types) : \A n \in Range(config.node_types) :
            /\ CrossBoundary(p, n) <=>
                   (p # n /\ \E g \in BoundaryGroups : {p, n} \subseteq g)
            /\ CrossBoundary(p, n)' = CrossBoundary(p, n) ]_vars

\* a committed walk holds a step the detector called a crossing and a step
\* between two different types that it did not
C13_Witness ==
    /\ pc = "done"
    /\ \E inst \in Instances :
          /\ \E j \in DOMAIN inst.edges :
                CrossBoundary(NodeType(inst.edges[j][1]), NodeType(inst.edges[j][2]))
          /\ \E j \in DOMAIN inst.edges :
                /\ NodeType(inst.edges[j][1]) # NodeType(inst.edges[j][2])
                /\ ~CrossBoundary(NodeType(inst.edges[j][1]), NodeType(inst.edges[j][2]))

\* the pairs a step wrote: new in the store, or with new attributes
Written == {p \in DOMAIN graph_edges' :
                p \notin DOMAIN graph_edges \/ graph_edges'[p] # graph_edges[p]}

\* C14: when the benign wiring hands over to the injection every node and
\* every edge is unlabeled; every edge the wiring writes is written with
\* attack_edge 0; once the number of attacks is drawn the program never goes
\* back to the wiring and every edge it writes is written with attack_edge 1.
C14_BenignFirst ==
    [][ /\ pc' = "randint" =>
              /\ \A n \in DOMAIN graph_nodes' : graph_nodes'[n].attack_node = 0
              /\ \A p \in DOMAIN graph_edges' : graph_edges'[p].attack_edge = 0
        /\ pc = "benign" => \A p \in Written : graph_edges'[p].attack_edge = 0
        /\ pc \in {"randint", "inject", "walk", "sensitive", "boundary", "commit"} =>
              /\ pc' \notin {"generate", "benign"}
              /\ \A p \in Written : graph_edges'[p].attack_edge = 1
      ]_vars

\* an injection is walking a graph that holds an edge of the benign wiring
C14_Witness ==
    /\ pc = "walk"
    /\ attack_edges # <<>>
    /\ \E p \in DOMAIN graph_edges : graph_edges[p].attack_edge = 0

\* the step (src, dst) joins two different types of one boundary group
Crosses(edge) == CrossBoundary(NodeType(edge[1]), NodeType(edge[2]))

\* C20: a committed AttackInstance has boundary_crossed true exactly when
\* one of its edges, of the motif or forced, crosses a boundary; an
\* injection starts with the flag false and no step of it takes the flag
\* from true back to false.
C20_BoundaryOr ==
    [][ /\ \A i \in DOMAIN attack_instances' :
              attack_instances'[i].boundary_crossed <=>
                  \E j \in DOMAIN attack_instances'[i].edges :
                      Crosses(attack_instances'[i].edges[j])
        /\ (pc = "inject" /\ pc' \in {"walk", "sensitive"}) => ~boundary_crossed'
        /\ (pc \in {"walk", "sensitive", "boundary"} /\ boundary_crossed) =>
              boundary_crossed'
      ]_vars

\* generate() returned an instance in which a crossing step is followed by
\* a step that does not cross
C20_Witness ==
    /\ pc = "done"
    /\ \E inst \in Instances :
          /\ inst.boundary_crossed
          /\ \E j \in DOMAIN inst.edges : \E k \in DOMAIN inst.edges :
                j < k /\ Crosses(inst.edges[j]) /\ ~Crosses(inst.edges[k])

\* C11: every draw of generate() and of the export consumes from one single
\* stream, and that stream was seeded before the run (so that the seed fixes
\* the graph, the instance list and the exported tensors).
C11_OneSeededStream ==
    /\ Cardinality(streams_used) <= 1
    /\ streams_used \subseteq seeded

\* C12: for the schema ABC (A: 5 nodes, B: 5 nodes, C: 2 nodes and
\* sensitive, one motif of its own, one boundary group {A, B, C}, one
\* injection) generate() raises nothing and returns one instance with
\* exactly 2 edges, exactly 3 nodes and boundary_crossed true.
C12_CustomMotifWalked ==
    config.name = "ABC" =>
        /\ pc # "raised"
        /\ pc \in {"done", "exported"} =>
              /\ Len(attack_instances) = 1
              /\ attack_instances[1].path_length = 2
              /\ Len(attack_instances[1].nodes) = 3
              /\ attack_instances[1].boundary_crossed

\* the types of the schema with no configured instance
EmptyTypes == {config.node_counts[i].t : i \in {j \in DOMAIN config.node_counts :
                                                     config.node_counts[j].n = 0}}

\* C15: when generate() raises for a schema with a type of zero instances,
\* the error names that type and the motif being walked, and no instance
\* was committed for the walk.
C15_EmptyPopulationNamed ==
    (pc = "raised" /\ EmptyTypes # {}) =>
        /\ \E t \in EmptyTypes : t \in error.names
        /\ motif \in error.names
        /\ Len(attack_instances) = injected

\* C16: generate() never returns for a schema whose sensitive_asset_types
\* or boundary_definition is empty.
C16_DegenerateRejected ==
    (config.sensitive_asset_types = <<>> \/ config.boundary_definition = <<>>) =>
        pc \notin {"done", "exported", "export_raised"}

\* a branch of _inject_attack for a motif of the catalog holds a step whose
\* node type or relation the schema does not declare
ReferencesUndeclared ==
    \E i \in DOMAIN config.attack_motif_definitions :
        LET branch == MotifBranch(config.attack_motif_definitions[i]) IN
        /\ branch.entry # ""
        /\ \/ branch.entry \notin Range(config.node_types)
           \/ \E k \in DOMAIN branch.items :
                 /\ branch.items[k].k = "step"
                 /\ \/ branch.items[k].t \notin Range(config.node_types)
                    \/ branch.items[k].r \notin Range(config.relation_types)

\* C17: for a schema one of whose motifs references an undeclared node type
\* or relation, no node and no edge is ever created and generate() does not
\* return; the error it raises names the motif.
C17_ValidatedFirst ==
    ReferencesUndeclared =>
        /\ DOMAIN graph_nodes = {}
        /\ DOMAIN graph_edges = {}
        /\ pc \notin {"done", "exported", "export_raised"}
        /\ pc = "raised" => motif \in error.names

\* C18: a write on a pair whose edge has attack_edge 1, with the relation
\* the edge already has, leaves attack_edge at 1.
C18_FlagOrOnWrite ==
    [][ \A p \in DOMAIN graph_edges :
            (/\ graph_edges[p].attack_edge = 1
             /\ p \in DOMAIN graph_edges'
             /\ graph_edges'[p].edge_type = graph_edges[p].edge_type)
                => graph_edges'[p].attack_edge = 1 ]_vars

\* C19: whenever generate() has returned, also from a second call on the
\* same object, the node ids are exactly 0 .. N-1, N the sum of
\* node_counts, and a node or an edge is labeled exactly when the returned
\* instance list holds it.
C19_BuiltPerCall ==
    pc = "done" =>
        /\ DOMAIN graph_nodes = 0 .. (TotalCount(config.node_counts, 1) - 1)
        /\ \A n \in DOMAIN graph_nodes :
              graph_nodes[n].attack_node = 1
                  <=> \E inst \in Instances : n \in Range(inst.nodes)
        /\ \A p \in DOMAIN graph_edges :
              graph_edges[p].attack_edge = 1
                  <=> \E inst \in Instances : p \in Range(inst.edges)

\* C21: a committed AttackInstance has one node more than edges; its k-th
\* edge ends at its (k+1)-th node and starts at one of its first k nodes,
\* the entry or a node an earlier edge appended.
C21_WalkShape ==
    \A inst \in Instances :
        /\ Len(inst.nodes) = Len(inst.edges) + 1
        /\ \A k \in DOMAIN inst.edges :
              /\ inst.edges[k][2] = inst.nodes[k + 1]
              /\ \E j \in 1 .. k : inst.nodes[j] = inst.edges[k][1]

\* generate() returned a B3 instance with a forced edge: the second edge
\* leaves the entry node, not the node the first edge appended
C21_Witness ==
    /\ pc = "done"
    /\ \E inst \in Instances :
          /\ inst.motif = "B3"
          /\ inst.path_length >= 3
          /\ inst.edges[2][1] = inst.nodes[1]
          /\ inst.edges[2][1] # inst.nodes[2]

\* C22: for the shipped schemas the sensitive-asset enforcement appends
\* nothing: whatever the motif, the coins and the repeat counts, the walk
\* it is handed already holds a node of a sensitive type, so the only edge
\* forced after the motif's steps is the one of the boundary enforcement.
C22_SensitiveNeverForced ==
    [][ (config.name \in ShippedNames /\ pc = "sensitive") =>
            /\ TouchesSensitive(attack_nodes)
            /\ pc' = "boundary"
            /\ attack_edges' = attack_edges
            /\ attack_nodes' = attack_nodes
            /\ graph_edges' = graph_edges ]_vars

\* the enforcement let an A1 walk through whose two coins both skipped
C22_Witness ==
    /\ pc = "boundary"
    /\ config.name = "Enterprise_A"
    /\ motif = "A1"
    /\ Len(attack_edges) = 2

\* C23: in the bundle to_pyg() returned, the per-node arrays have one entry
\* per node and their k-th entry (k = 0, 1, ...) holds the type code and
\* the attack_node of node k; edge_index lists every edge of the graph once
\* and only row indexes of the node arrays; the k-th entries of edge_type
\* and edge_label hold the relation code and the attack_edge of the k-th
\* pair of edge_index.
C23_BundleAligned ==
    pc = "exported" =>
        LET N == Len(pyg.y) IN
        /\ DOMAIN graph_nodes = 0 .. (N - 1)
        /\ Len(pyg.node_type) = N
        /\ \A k \in 0 .. (N - 1) :
              /\ pyg.y[k + 1] = graph_nodes[k].attack_node
              /\ config.node_types[pyg.node_type[k + 1] + 1] = graph_nodes[k].node_type
        /\ Range(pyg.edge_index) = DOMAIN graph_edges
        /\ Len(pyg.edge_index) = Cardinality(DOMAIN graph_edges)
        /\ Len(pyg.edge_type) = Len(pyg.edge_index)
        /\ Len(pyg.edge_label) = Len(pyg.edge_index)
        /\ \A k \in DOMAIN pyg.edge_index :
              /\ pyg.edge_index[k][1] \in 0 .. (N - 1)
              /\ pyg.edge_index[k][2] \in 0 .. (N - 1)
              /\ pyg.edge_label[k] = graph_edges[pyg.edge_index[k]].attack_edge
              /\ config.relation_types[pyg.edge_type[k] + 1]
                     = graph_edges[pyg.edge_index[k]].edge_type

\* a bundle with labeled and unlabeled nodes and edges was exported
C23_Witness ==
    /\ pc = "exported"
    /\ {0, 1} \subseteq Range(pyg.y)
    /\ {0, 1} \subseteq Range(pyg.edge_label)
====
